---- MODULE Spec2Model ----
(***************************************************************************)
(* gvi: a launcher that expands its path arguments into a batch of files,  *)
(* rejects batches that are too large, and opens every file in one gvim    *)
(* instance (src/src/main.rs).                                             *)
(*                                                                         *)
(* The model follows App::run step by step.  The environment (the file     *)
(* system given on the command line, the result of which::which, the       *)
(* process table seen by process_check, the outcome of each spawn, whether *)
(* a file still exists when it is dispatched) is input: the file system    *)
(* and the command line are drawn in Init, the rest when the code reads    *)
(* it.                                                                     *)
(***************************************************************************)
EXTENDS Integers, Sequences, FiniteSets, TLC

\* ---------------------------------------------------------------- constants
MAX_ARGS == 20
MAX_FILES == 30
MAX_SIZE == 307200
COUNT_LIMIT == 100
TIME_TO_START_UP_MILLIS == 2000

\* ------------------------------------------------------------------- bounds
\* number of entries of the small directories of the modelled file systems
MaxSmallDir == 2
\* number of entries of the over-long directories (more than MAX_FILES)
ListingOver == 31
\* largest number of path arguments on the modelled command lines
MaxArgc == 21
\* largest run time, in seconds, reported for a matched gvim process
MaxRunTime == 2
\* longest batch handed to has_large_size_of_files on its own
MaxBatch == 3

\* ------------------------------------------------------------ the file system
\* A path argument or directory entry.  kind is "file" (is_file() holds),
\* "dir" (read_dir succeeds, entries is the listing in listing order),
\* "unreadable" (neither: missing, no permission, broken link) or "err" (a
\* directory entry whose DirEntry could not be read: an Err item of ReadDir).
FileNode(s) == [kind |-> "file", size |-> s, entries |-> <<>>]
Unreadable == [kind |-> "unreadable", size |-> 0, entries |-> <<>>]
ErrEntry == [kind |-> "err", size |-> 0, entries |-> <<>>]
DirNode(n, c) == [kind |-> "dir", size |-> 0, entries |-> [i \in 1..n |-> c]]
\* a listing whose odd entries cannot be read
DirAlt(n, c) ==
    [kind |-> "dir", size |-> 0,
     entries |-> [i \in 1..n |-> IF i % 2 = 1 THEN ErrEntry ELSE c]]

SmallFile == FileNode(100)
BigFile == FileNode(200000)

DirSizes == {2, 25, ListingOver}
Leaves == {BigFile, Unreadable}
Dirs1 ==
    {DirNode(n, c) : n \in DirSizes \cup {0}, c \in Leaves \cup {ErrEntry}}
        \cup {DirAlt(n, BigFile) : n \in DirSizes}
Dirs2 ==
    {DirNode(n, DirNode(m, l)) :
        n \in {2, 25}, m \in {0, 2, ListingOver}, l \in Leaves}
RestNodes == Leaves \cup Dirs1 \cup Dirs2
FirstNodes ==
    {SmallFile, Unreadable, DirNode(MaxSmallDir, SmallFile),
     DirNode(2, DirNode(2, SmallFile))}
ArgCounts == {0, 1, 2, 3, 5} \cup (MAX_ARGS..MaxArgc)
Items(first, rest, n) == [i \in 1..n |-> IF i = 1 THEN first ELSE rest]

WhichResults == {"Ok", "OkVanished", "Err"}
\* exit status of a panicking Rust process: 101 when unwinding, 134 (SIGABRT)
\* when the build aborts on panic
PanicCodes == {101, 134}

VARIABLES
    items,          \* self.args[1..]: the path arguments, as file-system nodes
    whichResult,    \* what which::which("gvim") finds
    pc,             \* position in App::run
    exitCode,       \* -1 while running, else the process's exit status
    stderr,         \* the fatal messages printed
    count,          \* the shared expansion budget
    nextItem,       \* index of the next top-level item to expand
    stack,          \* the active expand_dir calls on directories
    collected,      \* the files the expansion has yielded so far, in order
    listed_files,   \* self.listed_files
    sizeResult,     \* the last result of has_large_size_of_files
    is_instance_exists, \* gvim_state.is_instance_exists
    opened_files,   \* gvim_state.opened_files
    idx,            \* index of the next file of the dispatch loop
    hist            \* history: what the run has done so far

vars ==
    <<items, whichResult, pc, exitCode, stderr, count, nextItem, stack,
      collected, listed_files, sizeResult, is_instance_exists, opened_files,
      idx, hist>>

\* ------------------------------------------------------------------ helpers
Min(a, b) == IF a < b THEN a ELSE b
Max(a, b) == IF a > b THEN a ELSE b

\* an entry of the batch: the path and what std::fs::metadata gives for it
BatchFile(p, node) == [path |-> p, size |-> node.size, meta |-> TRUE]

\* ------------------------------------------------------------------ GvimState
\* (a variant that always sleeps the whole start-up time)
process_check_full_sleep(outcome) ==
    IF outcome.found
    THEN [state |-> "CheckedTrue", sleep |-> TIME_TO_START_UP_MILLIS,
          slept |-> TRUE]
    ELSE [state |-> "CheckedFalse", sleep |-> 0, slept |-> FALSE]

\* process_check: outcome is what the process table shows, found and, for a
\* match, the run time in whole seconds.  Returns the new state and the time
\* slept.
process_check(outcome) ==
    IF outcome.found
    THEN LET run_millis == outcome.run_time * 1000
         IN  [state |-> "CheckedTrue",
              sleep |-> IF run_millis < TIME_TO_START_UP_MILLIS
                        THEN TIME_TO_START_UP_MILLIS - run_millis
                        ELSE 0,
              slept |-> run_millis < TIME_TO_START_UP_MILLIS]
    ELSE [state |-> "CheckedFalse", sleep |-> 0, slept |-> FALSE]

\* the first match of open_single_item: the states in which it probes
NeedsProbeAlways(state) == TRUE
NeedsProbeOnce(state) == state = "NeverChecked"
NeedsProbeWrongArm(state) == state \in {"NeverChecked", "CheckedTrue"}
NeedsProbe(state) == state \in {"NeverChecked", "CheckedFalse"}

\* exec_gvim: the counter after the spawn and the result
exec_gvim_counts_attempts(opened, spawnOk) ==
    [opened |-> opened + 1,
     result |-> IF spawnOk THEN "Ok" ELSE "CommandSpawnError"]
exec_gvim(opened, spawnOk) ==
    IF spawnOk
    THEN [opened |-> opened + 1, result |-> "Ok"]
    ELSE [opened |-> opened, result |-> "CommandSpawnError"]

\* the command line of the spawn, by the resolved state
SpawnArgsSwapped(state, path) ==
    IF state = "CheckedTrue"
    THEN <<path>>
    ELSE <<"--server-name", "GVIM", "--remote-tab", path>>
SpawnArgs(state, path) ==
    IF state = "CheckedFalse"
    THEN <<path>>
    ELSE <<"--server-name", "GVIM", "--remote-tab", path>>

\* the guard at the head of open_single_item: if !path.exists() { return Err }
ReturnsNotExistNever(exists) == FALSE
ReturnsNotExist(exists) == ~exists

\* open_single_item on path: exists is path.exists(), outcome the process
\* table (read only when the call probes), spawnOk whether spawn() succeeds
\* (read only when the call spawns).
open_single_item(state, opened, path, exists, outcome, spawnOk) ==
    IF ReturnsNotExist(exists)
    THEN [state |-> state, opened |-> opened, result |-> "ItemPathNotExist",
          errPath |-> path, probed |-> FALSE, sleep |-> 0, slept |-> FALSE,
          spawn |-> "none", spawnArgs |-> <<>>]
    ELSE
      LET probed == NeedsProbe(state)
          pr == IF probed THEN process_check(outcome)
                ELSE [state |-> state, sleep |-> 0, slept |-> FALSE]
          st == pr.state
      IN  IF st \in {"CheckedFalse", "CheckedTrue"}
          THEN LET ex == exec_gvim(opened, spawnOk)
               IN  [state |-> st, opened |-> ex.opened, result |-> ex.result,
                    errPath |-> <<>>, probed |-> probed, sleep |-> pr.sleep,
                    slept |-> pr.slept,
                    spawn |-> IF st = "CheckedFalse" THEN "fresh" ELSE "remote",
                    spawnArgs |-> SpawnArgs(st, path)]
          ELSE [state |-> st, opened |-> opened, result |-> "Ok",
                errPath |-> <<>>, probed |-> probed, sleep |-> pr.sleep,
                slept |-> pr.slept, spawn |-> "none", spawnArgs |-> <<>>]

\* ------------------------------------------------------------------------ App
has_files_to_open(argc) == argc > 1
has_too_many_arguments(argc) == argc > MAX_ARGS + 1

\* the test on the running sum
OverLimitInclusive(sum) == sum >= MAX_SIZE
OverLimit(sum) == sum > MAX_SIZE

RECURSIVE SizeFold(_, _, _)
SizeFold(files, sum, res) ==
    IF files = <<>> THEN res
    ELSE LET f == Head(files)
         IN  IF f.meta
             THEN SizeFold(Tail(files), sum + f.size,
                           res \/ OverLimit(sum + f.size))
             ELSE SizeFold(Tail(files), sum, res)
has_large_size_of_files(files) == SizeFold(files, 0, FALSE)

\* the order of the steps of run after the argument checks
PhaseAfterSizeLast(p) ==
    CASE p = "expand" -> "dispatch"
      [] p = "dispatch" -> "size"
      [] p = "size" -> "return"
PhaseAfter(p) ==
    CASE p = "expand" -> "size"
      [] p = "size" -> "dispatch"
      [] p = "dispatch" -> "return"

\* the match on the result in the loop of run: every arm at most prints, none
\* leaves the loop
LoopBreaksOnError(result) == result = "Ok"
LoopContinues(result) == TRUE

\* ----------------------------------------------------------------- expand_dir
\* the number of raw entries of a listing the walk consumes: take(MAX_FILES)
EntryLimitNone(entries) == Len(entries)
EntryLimit(entries) == Min(Len(entries), MAX_FILES)
\* the ceiling test made after the increment for a directory entry
ExceedsLimitOffByOne(c) == c > COUNT_LIMIT + 1
ExceedsLimit(c) == c > COUNT_LIMIT
\* (a variant that charges the budget for an unreadable path too)
expand_dir_counts_unreadable(node, p, cnt, stk, files) ==
    CASE node.kind = "file" ->
           [count |-> cnt + 1, stack |-> stk,
            collected |-> Append(files, [path |-> p, size |-> node.size,
                                         meta |-> TRUE])]
      [] node.kind = "dir" ->
           [count |-> cnt,
            stack |-> Append(stk, [path |-> p, entries |-> node.entries,
                                   taken |-> 0, recursed |-> 0]),
            collected |-> files]
      [] OTHER -> [count |-> cnt + 1, stack |-> stk, collected |-> files]

\* expand_dir applied to node at path p: the budget, the active calls and the
\* files yielded after its first step (a file returns at once, an unreadable
\* path returns nothing, a directory starts the walk of its listing)
expand_dir(node, p, cnt, stk, files) ==
    CASE node.kind = "file" ->
           [count |-> cnt + 1, stack |-> stk,
            collected |-> Append(files, BatchFile(p, node))]
      [] node.kind = "dir" ->
           [count |-> cnt,
            stack |-> Append(stk, [path |-> p, entries |-> node.entries,
                                   taken |-> 0, recursed |-> 0]),
            collected |-> files]
      [] OTHER -> [count |-> cnt, stack |-> stk, collected |-> files]

\* --------------------------------------------------------------------- state
NoCall ==
    [path |-> <<>>, exists |-> TRUE, probed |-> FALSE, result |-> "none",
     errPath |-> <<>>, spawn |-> "none", spawnArgs |-> <<>>,
     stateBefore |-> "NeverChecked", openedBefore |-> 0]

InitHist ==
    [visited |-> 0, entriesVisited |-> 0, maxTaken |-> 0, maxRecursed |-> 0,
     probes |-> 0, foundProbes |-> 0, lastProbeFound |-> FALSE,
     fresh |-> 0, remote |-> 0, okResults |-> 0, errPrinted |-> 0,
     sleeps |-> 0, slept |-> 0, foundAge |-> -1, foundRunTime |-> -1,
     freshOk |-> 0, freshAfterOk |-> 0, hidden |-> FALSE,
     dispatched |-> <<>>, last |-> NoCall]

InitRun ==
    /\ pc = "which"
    /\ exitCode = -1
    /\ stderr = <<>>
    /\ count = 0
    /\ nextItem = 1
    /\ stack = <<>>
    /\ collected = <<>>
    /\ listed_files = <<>>
    /\ sizeResult = FALSE
    /\ is_instance_exists = "NeverChecked"
    /\ opened_files = 0
    /\ idx = 1
    /\ hist = InitHist

Init ==
    /\ \E first \in FirstNodes, rest \in RestNodes, n \in ArgCounts :
           items = Items(first, rest, n)
    /\ whichResult \in WhichResults
    /\ InitRun

Exit(code, msgs) ==
    /\ pc' = "exited"
    /\ exitCode' = code
    /\ stderr' = stderr \o msgs

\* ---------------------------------------------------------------- App::run
\* which::which("gvim").unwrap().exists()
CheckGvim ==
    /\ pc = "which"
    /\ CASE whichResult = "Err" ->
              \E code \in PanicCodes : Exit(code, <<"panic">>)
         [] whichResult = "OkVanished" -> Exit(1, <<"NoGvim">>)
         [] OTHER -> pc' = "has_files" /\ UNCHANGED <<exitCode, stderr>>
    /\ UNCHANGED <<items, whichResult, count, nextItem, stack, collected,
                   listed_files, sizeResult, is_instance_exists, opened_files,
                   idx, hist>>

CheckHasFiles ==
    /\ pc = "has_files"
    /\ IF ~has_files_to_open(Len(items) + 1)
       THEN Exit(1, <<>>)
       ELSE pc' = "too_many" /\ UNCHANGED <<exitCode, stderr>>
    /\ UNCHANGED <<items, whichResult, count, nextItem, stack, collected,
                   listed_files, sizeResult, is_instance_exists, opened_files,
                   idx, hist>>

CheckTooMany ==
    /\ pc = "too_many"
    /\ IF has_too_many_arguments(Len(items) + 1)
       THEN Exit(1, <<>>)
       ELSE pc' = "expand" /\ UNCHANGED <<exitCode, stderr>>
    /\ UNCHANGED <<items, whichResult, count, nextItem, stack, collected,
                   listed_files, sizeResult, is_instance_exists, opened_files,
                   idx, hist>>

\* flat_map over items.iter().take(MAX_FILES): expand_dir on the next item
ExpandItem ==
    /\ pc = "expand"
    /\ stack = <<>>
    /\ nextItem <= Min(Len(items), MAX_FILES)
    /\ LET r == expand_dir(items[nextItem], <<nextItem>>, count, stack,
                           collected)
       IN  /\ count' = r.count
           /\ stack' = r.stack
           /\ collected' = r.collected
           /\ hist' = [hist EXCEPT !.visited = @ + 1]
    /\ nextItem' = nextItem + 1
    /\ UNCHANGED <<items, whichResult, pc, exitCode, stderr, listed_files,
                   sizeResult, is_instance_exists, opened_files, idx>>

\* one entry of the listing of the innermost active directory: the filter_map
\* drops an unreadable entry, the flat_map closure counts, tests the ceiling
\* and recurses
ExpandEntry ==
    /\ pc = "expand"
    /\ stack # <<>>
    /\ LET d == Len(stack)
           f == stack[d]
       IN  /\ f.taken < EntryLimit(f.entries)
           /\ LET ent == f.entries[f.taken + 1]
                  g == [f EXCEPT !.taken = @ + 1,
                                 !.recursed = IF ent.kind = "err" THEN @
                                              ELSE @ + 1]
                  stk == [stack EXCEPT ![d] = g]
              IN  IF ent.kind = "err"
                  THEN /\ stack' = stk
                       /\ hist' = [hist EXCEPT !.maxTaken = Max(@, g.taken)]
                       /\ UNCHANGED <<pc, exitCode, stderr, count, collected>>
                  ELSE IF ExceedsLimit(count + 1)
                  THEN /\ Exit(1, <<"Complicated">>)
                       /\ count' = count + 1
                       /\ stack' = stk
                       /\ hist' = [hist EXCEPT !.maxTaken = Max(@, g.taken)]
                       /\ UNCHANGED collected
                  ELSE LET r == expand_dir(ent, Append(f.path, f.taken + 1),
                                           count + 1, stk, collected)
                       IN  /\ count' = r.count
                           /\ stack' = r.stack
                           /\ collected' = r.collected
                           /\ hist' = [hist EXCEPT
                                         !.visited = @ + 1,
                                         !.entriesVisited = @ + 1,
                                         !.maxTaken = Max(@, g.taken),
                                         !.maxRecursed = Max(@, g.recursed)]
                           /\ UNCHANGED <<pc, exitCode, stderr>>
    /\ UNCHANGED <<items, whichResult, nextItem, listed_files, sizeResult,
                   is_instance_exists, opened_files, idx>>

\* the listing of the innermost active directory is used up (or cut by take):
\* expand_dir returns its result
ExpandReturn ==
    /\ pc = "expand"
    /\ stack # <<>>
    /\ LET f == stack[Len(stack)]
       IN  f.taken >= EntryLimit(f.entries)
    /\ stack' = SubSeq(stack, 1, Len(stack) - 1)
    /\ UNCHANGED <<items, whichResult, pc, exitCode, stderr, count, nextItem,
                   collected, listed_files, sizeResult, is_instance_exists,
                   opened_files, idx, hist>>

\* collect(): the expansion is over, self.listed_files is assigned
ExpandCollect ==
    /\ pc = "expand"
    /\ stack = <<>>
    /\ nextItem > Min(Len(items), MAX_FILES)
    /\ listed_files' = collected
    /\ pc' = PhaseAfter("expand")
    /\ UNCHANGED <<items, whichResult, exitCode, stderr, count, nextItem,
                   stack, collected, sizeResult, is_instance_exists,
                   opened_files, idx, hist>>

\* if self.has_large_size_of_files() { exit(1) }
SizeCheck ==
    /\ pc = "size"
    /\ sizeResult' = has_large_size_of_files(listed_files)
    /\ IF sizeResult'
       THEN Exit(1, <<>>)
       ELSE pc' = PhaseAfter("size") /\ UNCHANGED <<exitCode, stderr>>
    /\ UNCHANGED <<items, whichResult, count, nextItem, stack, collected,
                   listed_files, is_instance_exists, opened_files, idx, hist>>

\* What the process table shows to one probe: no gvim, or a gvim process of
\* true age `age` (milliseconds) whose run_time() is `run_time` whole seconds.
\* sysinfo keeps the start time and the current time in whole seconds and
\* reports their difference, so run_time() is the age rounded down, or, when
\* the age is not a whole number of seconds, possibly one more.
Ages == {k * 500 : k \in 0..(2 * MaxRunTime)}
ReportedRunTimes(age) ==
    IF age % 1000 = 0 THEN {age \div 1000}
    ELSE {age \div 1000, age \div 1000 + 1}
ProbeOutcomes ==
    {[found |-> FALSE, age |-> 0, run_time |-> 0]}
        \cup UNION {{[found |-> TRUE, age |-> a, run_time |-> t] :
                        t \in ReportedRunTimes(a)} : a \in Ages}

\* one turn of the loop over self.listed_files: open_single_item and the report
\* of its error
Dispatch ==
    /\ pc = "dispatch"
    /\ idx <= Len(listed_files)
    /\ \E exists \in BOOLEAN, outcome \in ProbeOutcomes, spawnOk \in BOOLEAN :
         LET f == listed_files[idx]
             r == open_single_item(is_instance_exists, opened_files, f.path,
                                   exists, outcome, spawnOk)
         IN  /\ is_instance_exists' = r.state
             /\ opened_files' = r.opened
             /\ hist' = [hist EXCEPT
                  !.probes = IF r.probed THEN @ + 1 ELSE @,
                  !.foundProbes =
                      IF r.probed /\ outcome.found THEN @ + 1 ELSE @,
                  !.lastProbeFound =
                      IF r.probed THEN outcome.found ELSE @,
                  !.fresh = IF r.spawn = "fresh" THEN @ + 1 ELSE @,
                  !.remote = IF r.spawn = "remote" THEN @ + 1 ELSE @,
                  !.freshOk =
                      IF r.spawn = "fresh" /\ r.result = "Ok" THEN @ + 1
                      ELSE @,
                  !.freshAfterOk =
                      IF r.spawn = "fresh" /\ hist.freshOk >= 1 THEN @ + 1
                      ELSE @,
                  !.hidden =
                      @ \/ (r.probed /\ ~outcome.found /\ hist.freshOk >= 1),
                  !.okResults = IF r.result = "Ok" THEN @ + 1 ELSE @,
                  !.errPrinted = IF r.result # "Ok" THEN @ + 1 ELSE @,
                  !.sleeps = IF r.slept THEN @ + 1 ELSE @,
                  !.slept = @ + r.sleep,
                  !.foundAge =
                      IF r.probed /\ outcome.found THEN outcome.age ELSE @,
                  !.foundRunTime =
                      IF r.probed /\ outcome.found THEN outcome.run_time
                      ELSE @,
                  !.dispatched = Append(@, f.path),
                  !.last = [path |-> f.path, exists |-> exists,
                            probed |-> r.probed, result |-> r.result,
                            errPath |-> r.errPath, spawn |-> r.spawn,
                            spawnArgs |-> r.spawnArgs,
                            stateBefore |-> is_instance_exists,
                            openedBefore |-> opened_files]]
             /\ idx' = IF LoopContinues(r.result) THEN idx + 1
                       ELSE Len(listed_files) + 1
    /\ UNCHANGED <<items, whichResult, pc, exitCode, stderr, count, nextItem,
                   stack, collected, listed_files, sizeResult>>

\* the loop is over
DispatchDone ==
    /\ pc = "dispatch"
    /\ idx > Len(listed_files)
    /\ pc' = PhaseAfter("dispatch")
    /\ UNCHANGED <<items, whichResult, exitCode, stderr, count, nextItem,
                   stack, collected, listed_files, sizeResult,
                   is_instance_exists, opened_files, idx, hist>>

\* run returns and main ends: exit status 0
Return ==
    /\ pc = "return"
    /\ Exit(0, <<>>)
    /\ UNCHANGED <<items, whichResult, count, nextItem, stack, collected,
                   listed_files, sizeResult, is_instance_exists, opened_files,
                   idx, hist>>

Next ==
    \/ CheckGvim
    \/ CheckHasFiles
    \/ CheckTooMany
    \/ ExpandItem
    \/ ExpandEntry
    \/ ExpandReturn
    \/ ExpandCollect
    \/ SizeCheck
    \/ Dispatch
    \/ DispatchDone
    \/ Return

Spec == Init /\ [][Next]_vars

\* ------------------------------------- has_large_size_of_files on its own
\* The unit tests of main.rs set app.listed_files and call
\* has_large_size_of_files directly; SpecSize does the same for every batch
\* of at most MaxBatch files with the sizes below (an unreadable file is one
\* whose metadata cannot be read, whatever its size).
TestSizes == {0, 1, 100, 153600, 307199, 307200, 307201}
TestFiles ==
    {[size |-> z, meta |-> TRUE] : z \in TestSizes}
        \cup {[size |-> 307201, meta |-> FALSE]}
TestBatches ==
    UNION {[1..n -> TestFiles] : n \in 0..MaxBatch}
AsBatch(b) ==
    [i \in 1..Len(b) |-> [path |-> <<i>>, size |-> b[i].size,
                          meta |-> b[i].meta]]

InitSize ==
    /\ items = <<>>
    /\ whichResult = "Ok"
    /\ pc = "size_test"
    /\ exitCode = -1
    /\ stderr = <<>>
    /\ count = 0
    /\ nextItem = 1
    /\ stack = <<>>
    /\ collected = <<>>
    /\ \E b \in TestBatches : listed_files = AsBatch(b)
    /\ sizeResult = FALSE
    /\ is_instance_exists = "NeverChecked"
    /\ opened_files = 0
    /\ idx = 1
    /\ hist = InitHist

TestSize ==
    /\ pc = "size_test"
    /\ sizeResult' = has_large_size_of_files(listed_files)
    /\ pc' = "size_tested"
    /\ UNCHANGED <<items, whichResult, exitCode, stderr, count, nextItem,
                   stack, collected, listed_files, is_instance_exists,
                   opened_files, idx, hist>>

NextSize == TestSize

SpecSize == InitSize /\ [][NextSize]_vars

\* ====================================================================== claims
Reverse(q) == [i \in 1..Len(q) |-> q[Len(q) + 1 - i]]
Paths(files) == [i \in 1..Len(files) |-> files[i].path]
RECURSIVE SumOver(_, _)
\* the sum of the sizes of the readable files with index in S
SumOver(files, S) ==
    IF S = {} THEN 0
    ELSE LET i == CHOOSE j \in S : TRUE
         IN  files[i].size + SumOver(files, S \ {i})
ReadableTotal(files) ==
    SumOver(files, {i \in 1..Len(files) : files[i].meta})
FatalExit == pc = "exited" /\ exitCode # 0
ExpansionOver == pc \in {"size", "dispatch", "return"}

\* C1: once the probe state is CheckedTrue, every later step leaves it
\* CheckedTrue and makes no call of process_check, whatever the step reads
\* (missing path, spawn failure, success).
C1_FoundIsTrusted ==
    [][is_instance_exists = "CheckedTrue"
         => /\ is_instance_exists' = "CheckedTrue"
            /\ hist'.probes = hist.probes]_vars

\* C1 witness: a call of open_single_item made in state CheckedTrue has
\* failed to spawn and more files remain.
C1_Witness ==
    /\ pc = "dispatch"
    /\ hist.last.stateBefore = "CheckedTrue"
    /\ hist.last.result = "CommandSpawnError"
    /\ idx <= Len(listed_files)
    /\ hist.probes >= 1

\* C2 as stated: process_check is called at most once in a run.
C2_ProbedAtMostOnce == hist.probes <= 1

\* C2 amended: process_check is called at most once per call of
\* open_single_item, at most one probe of a run returns a match, and no probe
\* follows it; a probe that finds nothing is not memoized.
C2_OnlyFoundIsMemoized ==
    /\ hist.probes <= Len(hist.dispatched)
    /\ hist.foundProbes <= 1
    /\ (hist.foundProbes = 1 => hist.lastProbeFound)
    /\ (is_instance_exists = "CheckedTrue" <=> hist.foundProbes = 1)
    /\ (is_instance_exists = "NeverChecked" <=> hist.probes = 0)

\* C2 witness: two probes found nothing, a third found gvim, and a later call
\* reused that result.
C2_Witness ==
    /\ hist.probes = 3
    /\ hist.foundProbes = 1
    /\ hist.last.stateBefore = "CheckedTrue"
    /\ hist.last.spawn = "remote"

\* C3: a call of open_single_item on a path that does not exist returns
\* ItemPathNotExist with that path, neither probes nor spawns, leaves the probe
\* state and the launch counter as they were, and the loop goes on.
C3_MissingPathIsSkipped ==
    [][(pc = "dispatch" /\ idx <= Len(listed_files) /\ ~hist'.last.exists)
         => /\ hist'.last.result = "ItemPathNotExist"
            /\ hist'.last.errPath = listed_files[idx].path
            /\ hist'.last.spawn = "none"
            /\ ~hist'.last.probed
            /\ hist'.probes = hist.probes
            /\ hist'.fresh = hist.fresh
            /\ hist'.remote = hist.remote
            /\ hist'.okResults = hist.okResults
            /\ is_instance_exists' = is_instance_exists
            /\ opened_files' = opened_files
            /\ pc' = "dispatch"
            /\ idx' = idx + 1
            /\ exitCode' = -1]_vars

\* C3 witness: a missing path was dispatched while the state was CheckedFalse
\* and the launch counter was positive, and another file follows.
C3_Witness ==
    /\ pc = "dispatch"
    /\ ~hist.last.exists
    /\ hist.last.result = "ItemPathNotExist"
    /\ hist.last.stateBefore = "CheckedFalse"
    /\ opened_files >= 1
    /\ idx <= Len(listed_files)

\* C4 as stated: while the process has not exited, the budget is at most 100
\* (when it exceeds 100 the process has terminated with a non-zero status).
C4_OverCeilingExits ==
    count > COUNT_LIMIT => (pc = "exited" /\ exitCode # 0)

\* C5 as stated: when the expansion has completed, expand_dir has been applied
\* to at most 100 paths.
C5_AtMost100Visited == ExpansionOver => hist.visited <= COUNT_LIMIT

\* C5 amended: at most 100 directory entries are recursed into; the top-level
\* arguments come on top of them, so expand_dir is applied to at most
\* 100 + MAX_ARGS paths.
C5_EntriesBounded ==
    /\ hist.entriesVisited <= COUNT_LIMIT
    /\ hist.visited <= hist.entriesVisited + MAX_ARGS
    /\ hist.visited <= COUNT_LIMIT + MAX_ARGS

\* C5 witness: the expansion has completed after visiting more than 100 paths.
C5_Witness ==
    /\ ExpansionOver
    /\ hist.visited > COUNT_LIMIT
    /\ hist.entriesVisited = COUNT_LIMIT

\* C6: of every listing at most the first MAX_FILES raw entries are consumed,
\* unreadable entries included, so at most MAX_FILES of its entries are
\* recursed into.
C6_ListingCap ==
    /\ hist.maxTaken <= MAX_FILES
    /\ hist.maxRecursed <= MAX_FILES
    /\ \A d \in 1..Len(stack) :
          /\ stack[d].taken <= MAX_FILES
          /\ stack[d].recursed <= stack[d].taken
          /\ stack[d].recursed =
                Cardinality({i \in 1..stack[d].taken :
                                stack[d].entries[i].kind # "err"})

\* C6 witness: a listing of more than MAX_FILES entries, some unreadable, has
\* been cut at MAX_FILES and its walk is over.
C6_Witness ==
    /\ pc = "expand"
    /\ \E d \in 1..Len(stack) :
          /\ Len(stack[d].entries) > MAX_FILES
          /\ stack[d].taken = MAX_FILES
          /\ stack[d].recursed > 0
          /\ stack[d].recursed < MAX_FILES

\* C7: has_large_size_of_files is true exactly when the sizes of the readable
\* files sum to more than MAX_SIZE, and the reversed batch gives the same.
C7_SizeGuard ==
    pc = "size_tested"
      => /\ sizeResult = (ReadableTotal(listed_files) > MAX_SIZE)
         /\ has_large_size_of_files(Reverse(listed_files)) = sizeResult

\* C7 witness: a batch of readable files summing to exactly MAX_SIZE beside an
\* unreadable file larger than MAX_SIZE is accepted.
C7_Witness ==
    /\ pc = "size_tested"
    /\ ~sizeResult
    /\ ReadableTotal(listed_files) = MAX_SIZE
    /\ \E i \in 1..Len(listed_files) :
          ~listed_files[i].meta /\ listed_files[i].size > MAX_SIZE

\* C8: a run that has ended with a non-zero status has probed nothing, spawned
\* nothing and dispatched no file; a true size guard ends the run with status 1.
C8_NoDispatchOnFatalExit ==
    /\ FatalExit
         => /\ hist.probes = 0
            /\ hist.fresh = 0
            /\ hist.remote = 0
            /\ hist.dispatched = <<>>
            /\ opened_files = 0
            /\ is_instance_exists = "NeverChecked"
    /\ sizeResult => (pc = "exited" /\ exitCode = 1)

\* C8 witness: the size guard has rejected a batch of several files.
C8_Witness ==
    /\ FatalExit
    /\ sizeResult
    /\ Len(listed_files) >= 2

\* C9: in the loop, open_single_item has been called once on each of the files
\* before idx, in batch order, whatever the results; the loop ends only when
\* every file has been dispatched, and the run then exits with status 0.
C9_EveryFileDispatched ==
    /\ pc \in {"size", "dispatch"}
         => /\ idx <= Len(listed_files) + 1
            /\ hist.dispatched = SubSeq(Paths(listed_files), 1, idx - 1)
    /\ hist.okResults + hist.errPrinted = Len(hist.dispatched)
    /\ (pc = "return" \/ (pc = "exited" /\ hist.dispatched # <<>>))
         => hist.dispatched = Paths(listed_files)
    /\ (pc = "exited" /\ hist.dispatched # <<>>) => exitCode = 0

\* C9 witness: a run has exited with status 0 after a missing path, a spawn
\* failure and a success.
C9_Witness ==
    /\ pc = "exited"
    /\ exitCode = 0
    /\ Len(hist.dispatched) >= 3
    /\ hist.errPrinted >= 2
    /\ hist.okResults >= 1
    /\ hist.last.result = "Ok"

\* C10 as stated: when gvim is not on the search path, the run ends with
\* status 1 after printing the explanatory message, and has done nothing else.
C10_MissingEditorExitsOne ==
    (whichResult = "Err" /\ pc = "exited")
      => /\ exitCode = 1
         /\ stderr = <<"NoGvim">>
         /\ hist = InitHist
         /\ count = 0

\* C11 as stated: a run with no path argument, or with more than MAX_ARGS of
\* them, ends with status 1 and has expanded nothing; a run with 1 to MAX_ARGS
\* arguments that has found gvim is not stopped by the two argument checks,
\* and when its expansion has run to its end every argument has been expanded.
C11_ArgumentGate ==
    /\ (pc = "exited" /\ Len(items) = 0)
         => (exitCode = 1 /\ hist.visited = 0 /\ nextItem = 1)
    /\ (pc = "exited" /\ Len(items) > MAX_ARGS)
         => (exitCode = 1 /\ hist.visited = 0 /\ nextItem = 1)
    /\ (pc = "exited" /\ Len(items) \in 1..MAX_ARGS /\ whichResult = "Ok")
         => hist.visited >= 1
    /\ (Len(items) \in 1..MAX_ARGS /\ ExpansionOver)
         => (nextItem = Len(items) + 1 /\ hist.visited >= Len(items))

\* C12 as stated: a probe that finds a process of true age t milliseconds has
\* slept 2000 - t when t < 2000 and has not slept when t >= 2000.
C12_SleepsRemainingMillis ==
    hist.foundProbes >= 1
      => hist.slept = IF hist.foundAge < TIME_TO_START_UP_MILLIS
                      THEN TIME_TO_START_UP_MILLIS - hist.foundAge
                      ELSE 0

\* C12 amended: the probe works on run_time(), whole seconds: with s seconds
\* reported it has slept 2000 - 1000 * s when 1000 * s < 2000, so 2000 or
\* 1000 milliseconds, and has not slept when s >= 2; a process started 500
\* milliseconds ago makes it sleep 2000 or 1000 milliseconds, never 1500.
C12_SleepsRemainingSeconds ==
    hist.foundProbes >= 1
      => /\ hist.slept =
               IF hist.foundRunTime * 1000 < TIME_TO_START_UP_MILLIS
               THEN TIME_TO_START_UP_MILLIS - hist.foundRunTime * 1000
               ELSE 0
         /\ hist.slept \in {0, 1000, 2000}
         /\ (hist.sleeps = 1 <=> hist.foundRunTime < 2)
         /\ (hist.foundAge = 500 => hist.slept \in {1000, 2000})
         /\ is_instance_exists = "CheckedTrue"

\* C12 witness: the probe has found a process started 500 milliseconds ago
\* and has slept 2000 milliseconds.
C12_Witness ==
    /\ hist.foundProbes = 1
    /\ hist.foundAge = 500
    /\ hist.foundRunTime = 0
    /\ hist.slept = 2000
    /\ is_instance_exists = "CheckedTrue"

\* C13: the spawn of a call is a fresh launch with the path as only argument
\* exactly when the call resolved to CheckedFalse, and the remote command
\* (server name, remote-tab directive, path) exactly when it resolved to
\* CheckedTrue; a call on an existing path always spawns one of the two.
C13_ModeMatchesState ==
    /\ hist.last.spawn = "fresh"
         => /\ is_instance_exists = "CheckedFalse"
            /\ hist.last.stateBefore # "CheckedTrue"
            /\ hist.last.spawnArgs = <<hist.last.path>>
    /\ hist.last.spawn = "remote"
         => /\ is_instance_exists = "CheckedTrue"
            /\ hist.last.spawnArgs =
                  <<"--server-name", "GVIM", "--remote-tab", hist.last.path>>
    /\ (hist.last.result # "none" /\ hist.last.exists)
         => hist.last.spawn = IF is_instance_exists = "CheckedFalse"
                              THEN "fresh" ELSE "remote"
    /\ (hist.last.result # "none" /\ ~hist.last.exists)
         => hist.last.spawn = "none"

\* C13 witness: no gvim was running and the first valid file was opened by a
\* fresh launch, which brought the launch counter to 1.
C13_Witness ==
    /\ hist.last.spawn = "fresh"
    /\ hist.last.result = "Ok"
    /\ hist.last.stateBefore = "NeverChecked"
    /\ hist.last.spawnArgs = <<hist.last.path>>
    /\ opened_files = 1

\* C14: a call of open_single_item on an existing path made in state
\* CheckedFalse probes again; the state never goes back to NeverChecked and
\* never leaves CheckedTrue.
C14_NotFoundIsReprobed ==
    [][/\ (pc = "dispatch" /\ idx <= Len(listed_files)
             /\ is_instance_exists = "CheckedFalse" /\ hist'.last.exists)
          => (hist'.probes = hist.probes + 1 /\ hist'.last.probed)
       /\ is_instance_exists # "NeverChecked"
          => is_instance_exists' # "NeverChecked"
       /\ is_instance_exists = "CheckedTrue"
          => is_instance_exists' = "CheckedTrue"]_vars

\* C14 witness: the state has moved from CheckedFalse to CheckedTrue in the
\* middle of a run, at the third probe.
C14_Witness ==
    /\ hist.last.stateBefore = "CheckedFalse"
    /\ is_instance_exists = "CheckedTrue"
    /\ hist.last.probed
    /\ hist.probes = 3

\* C15: opened_files starts at 0 and every step either leaves it alone or adds
\* one; it adds one exactly in a call that spawned successfully, which is
\* exactly a call that returned Ok; so it always equals the number of Ok
\* results and is at most the number of files dispatched.
C15_CounterCountsSpawns ==
    /\ opened_files = 0
    /\ [][/\ opened_files' \in {opened_files, opened_files + 1}
          /\ (opened_files' = opened_files + 1)
                <=> (hist'.okResults = hist.okResults + 1)
          /\ (opened_files' = opened_files + 1)
                => /\ hist'.last.result = "Ok"
                   /\ hist'.last.spawn \in {"fresh", "remote"}
                   /\ hist'.last.exists
                   /\ hist'.dispatched # hist.dispatched
          /\ (hist'.dispatched # hist.dispatched /\ hist'.last.result = "Ok")
                => opened_files' = opened_files + 1
          /\ (hist'.dispatched # hist.dispatched /\ hist'.last.result # "Ok")
                => opened_files' = opened_files
          /\ opened_files' = hist'.okResults
          /\ opened_files' <= Len(hist'.dispatched)]_vars

\* C15 witness: a run has ended with two files opened out of four dispatched,
\* the others a missing path and a spawn failure.
C15_Witness ==
    /\ pc = "exited"
    /\ exitCode = 0
    /\ opened_files = 2
    /\ hist.errPrinted = 2
    /\ hist.last.result = "CommandSpawnError"

\* C16: as long as no probe made after a successful fresh launch has missed
\* gvim, at most one fresh launch has succeeded, no fresh launch has been tried
\* after it, and every later call on an existing path has resolved to
\* CheckedTrue and used the remote command.
C16_SingleInstance ==
    ~hist.hidden
      => /\ hist.freshOk <= 1
         /\ hist.freshAfterOk = 0
         /\ (hist.freshOk >= 1 /\ hist.last.exists
               /\ hist.last.spawn # "remote")
              => (hist.last.spawn = "fresh" /\ hist.last.result = "Ok")
         /\ (hist.freshOk >= 1 /\ hist.last.spawn = "remote")
              => is_instance_exists = "CheckedTrue"

\* C16 witness: after a failed and then a successful fresh launch, a later
\* file was opened through the remote command and another one is left.
C16_Witness ==
    /\ ~hist.hidden
    /\ hist.freshOk = 1
    /\ hist.fresh = 2
    /\ hist.remote >= 1
    /\ hist.last.spawn = "remote"
    /\ pc = "dispatch"
    /\ idx <= Len(listed_files)

\* C17 as stated: when the probe has set CheckedTrue, the matched process has
\* been running for at least 2000 milliseconds (its age at the probe plus the
\* time slept).
C17_WarmUpGuarantee ==
    hist.foundProbes >= 1
      => hist.foundAge + hist.slept >= TIME_TO_START_UP_MILLIS

\* C18: over a run the program sleeps at most once and at most 2000
\* milliseconds in total.
C18_SleepsAtMostOnce ==
    /\ hist.sleeps <= 1
    /\ hist.slept <= TIME_TO_START_UP_MILLIS
    /\ (hist.sleeps = 0 <=> hist.slept = 0)
    /\ hist.sleeps <= hist.foundProbes

\* C18 witness: a run of three probes and further files has slept once, the
\* whole 2000 milliseconds.
C18_Witness ==
    /\ hist.sleeps = 1
    /\ hist.slept = TIME_TO_START_UP_MILLIS
    /\ hist.probes = 3
    /\ hist.last.stateBefore = "CheckedTrue"
    /\ Len(hist.dispatched) >= 4

\* C19: expand_dir on an unreadable path yields nothing, leaves the budget as
\* it found it (for a directory entry: as the closure's own increment left it)
\* and does not exit; the files collected so far are kept and the walk goes on
\* with the next argument or entry.
C19_UnreadableIsSkipped ==
    [][/\ (pc = "expand" /\ stack = <<>> /\ nextItem <= Len(items)
             /\ items[nextItem].kind = "unreadable")
          => /\ count' = count
             /\ collected' = collected
             /\ stack' = <<>>
             /\ nextItem' = nextItem + 1
             /\ pc' = "expand"
             /\ exitCode' = -1
       /\ (pc = "expand" /\ stack # <<>>
             /\ stack[Len(stack)].taken < EntryLimit(stack[Len(stack)].entries)
             /\ stack[Len(stack)].entries[stack[Len(stack)].taken + 1].kind
                  = "unreadable"
             /\ ~ExceedsLimit(count + 1))
          => /\ count' = count + 1
             /\ collected' = collected
             /\ Len(stack') = Len(stack)
             /\ stack'[Len(stack)].taken = stack[Len(stack)].taken + 1
             /\ pc' = "expand"
             /\ exitCode' = -1]_vars

\* C19 witness: an unreadable argument has been skipped after a file was
\* collected, the budget still at 1, and the walk goes on.
C19_Witness ==
    /\ pc = "expand"
    /\ nextItem = 3
    /\ stack = <<>>
    /\ Len(items) >= 3
    /\ items[2].kind = "unreadable"
    /\ Len(collected) = 1
    /\ count = 1

====
